---------------------------- MODULE Spec2Model ----------------------------
(***************************************************************************)
(* A model of the DisTrO delta codec of tools/python-tools/expand-distro.py *)
(* (class CompressDCT and the batch tool main).                             *)
(*                                                                          *)
(* A tensor is a record [shape, data]: shape is the sequence of its         *)
(* dimensions and data its elements in row-major order.  Element values are *)
(* small integers standing for floats.  Every torch primitive the codec     *)
(* uses (topk, rand_like, scatter_, gather, concatenate, zeros,             *)
(* scatter_add_, einops.rearrange) works along the last axis and is         *)
(* modelled by what it does to the elements, checks and failures included.  *)
(* Column indices are 0-based as in the code; TLA+ sequences are 1-based.   *)
(***************************************************************************)
EXTENDS Integers, Sequences, FiniteSets, TLC

VARIABLES
    req,      \* the arguments the constructor was called with
    codec,    \* the CompressDCT object: [topk, randk] (self.topk, self.randk)
    xs,       \* the tensors handed to compress so far, in call order
    deltas,   \* what each of these compress calls returned
    result,   \* what the last decompress / batch_decompress call returned
    pc,       \* the position of the session, or of main()
    proc,     \* the process running main(): its inputs, its loop position,
              \* the tensor decompress has allocated, stdout, exit status
    rng       \* how many values have been drawn from torch's default
              \* generator, which the whole process shares

vars == <<req, codec, xs, deltas, result, pc, proc, rng>>

----------------------------------------------------------------------------
(* Bounds of the model *)

\* the last axis of a tensor's view has at most this many columns
MaxCols == 3
\* a tensor has at most this many elements
MaxElems == 4
\* a tensor compressed for a merge has at most this many elements
MaxMergeElems == 2

\* the index lists handed to one decompress or merge hold at most this many
\* entries in all, and so do the value lists
MaxLen == 2

\* element values of the input tensors
Vals == {-1, 0, 1}
\* element values of a delta that did not come from compress
CraftVals == {-1, 1}
\* the levels torch.rand_like draws from, standing for [0, 1); topk breaks
\* ties either way, so two levels already give every selection
RandLevels == {0, 1}
\* the constructor's arguments range over 0..MaxK: up to the widest row
MaxK == MaxCols

----------------------------------------------------------------------------
(* Tensors *)

RECURSIVE Prod(_)
Prod(s) == IF s = <<>> THEN 1 ELSE Head(s) * Prod(Tail(s))

Range(s) == {s[i] : i \in DOMAIN s}

Min(a, b) == IF a <= b THEN a ELSE b

AbsVal(v) == IF v < 0 THEN -v ELSE v

NoTensor == [shape |-> <<>>, data |-> <<>>]

\* the size of the last axis, x.shape[-1]
NumCols(t) == t.shape[Len(t.shape)]

\* the number of slices along the last axis
NumRows(t) == Prod(SubSeq(t.shape, 1, Len(t.shape) - 1))

\* the leading dimensions
Lead(t) == SubSeq(t.shape, 1, Len(t.shape) - 1)

\* element (r, c) of the view [NumRows, NumCols], both 0-based
At(t, r, c) == t.data[r * NumCols(t) + c + 1]

\* row r (0-based) as a sequence
Row(t, r) == [c \in 1..NumCols(t) |-> At(t, r, c - 1)]

\* the tensor with leading dimensions lead whose r-th row is rows[r]
FromRows(lead, k, rows) ==
    [shape |-> Append(lead, k),
     data  |-> [n \in 1..(Prod(lead) * k) |->
                  rows[((n - 1) \div k) + 1][((n - 1) % k) + 1]]]


\* the multi-index of the r-th slice (0-based) of leading dimensions lead
RECURSIVE Unravel(_, _)
Unravel(lead, r) ==
    IF lead = <<>> THEN <<>>
    ELSE <<r \div Prod(Tail(lead))>> \o Unravel(Tail(lead), r % Prod(Tail(lead)))

\* the slice number (0-based) of multi-index mi under leading dimensions lead
RECURSIVE Ravel(_, _)
Ravel(lead, mi) ==
    IF lead = <<>> THEN 0
    ELSE mi[1] * Prod(Tail(lead)) + Ravel(Tail(lead), Tail(mi))

RECURSIVE SumSeq(_)
SumSeq(s) == IF s = <<>> THEN 0 ELSE Head(s) + SumSeq(Tail(s))

\* every dimension of a is at most the same dimension of b
DimsLeq(a, b) == \A d \in DOMAIN a : a[d] <= b[d]

----------------------------------------------------------------------------
(* The torch and einops primitives the codec calls *)

\* all sequences of k distinct elements of S
RECURSIVE Arrangements(_, _)
Arrangements(S, k) ==
    IF k = 0 THEN {<<>>}
    ELSE UNION {{Append(s, e) : e \in S \ Range(s)} : s \in Arrangements(S, k - 1)}

\* one element of each set of the sequence sets, in all ways
RECURSIVE Choices(_)
Choices(sets) ==
    IF sets = <<>> THEN {<<>>}
    ELSE {<<h>> \o t : h \in Head(sets), t \in Choices(Tail(sets))}

\* torch.topk(row, k, largest=True, sorted=False).indices of one row: any k
\* columns none of which is smaller than a column left out, in any order
RowTopk(row, k) ==
    {s \in Arrangements(0..(Len(row) - 1), k) :
        \A i \in Range(s) : \A j \in (0..(Len(row) - 1)) \ Range(s) :
            row[i + 1] >= row[j + 1]}

\* torch.topk(t, k=k, dim=-1, largest=True, sorted=False).indices: every
\* tensor the call may return
TorchTopkIndices(t, k) ==
    {FromRows(Lead(t), k, rows) :
        rows \in Choices([r \in 1..NumRows(t) |-> RowTopk(Row(t, r - 1), k)])}

\* x.abs()
TorchAbs(t) == [shape |-> t.shape, data |-> [n \in DOMAIN t.data |-> AbsVal(t.data[n])]]

\* torch.rand_like(x): every tensor of x's shape over the random levels
TorchRandLike(t) ==
    {[shape |-> t.shape, data |-> d] : d \in [DOMAIN t.data -> RandLevels]}

\* t.scatter_(dim=-1, index=idx, value=v)
TorchScatterValue(t, idx, v) ==
    [shape |-> t.shape,
     data  |-> [n \in DOMAIN t.data |->
                  IF ((n - 1) % NumCols(t)) \in Range(Row(idx, (n - 1) \div NumCols(t)))
                  THEN v ELSE t.data[n]]]

\* torch.gather(t, dim=-1, index=idx)
TorchGather(t, idx) ==
    [shape |-> idx.shape,
     data  |-> [n \in DOMAIN idx.data |->
                  At(t, (n - 1) \div NumCols(idx), idx.data[n])]]

\* a concatenation that puts the whole of b after the whole of a
TorchConcatenateFlat(a, b) ==
    [shape |-> Append(Lead(a), NumCols(a) + NumCols(b)), data |-> a.data \o b.data]

\* torch.concatenate([a, b], dim=-1)
TorchConcatenate2(a, b) ==
    FromRows(Lead(a), NumCols(a) + NumCols(b),
             [r \in 1..NumRows(a) |-> Row(a, r - 1) \o Row(b, r - 1)])

\* torch.concatenate(ts, dim=-1) of a list: the tensors must agree in every
\* dimension but the last
RECURSIVE TorchConcatenate(_)
TorchConcatenate(ts) ==
    IF ts = <<>>
      THEN [ok |-> FALSE, err |-> "RuntimeError: expected a non-empty list of Tensors",
            x |-> NoTensor]
    ELSE IF Len(ts) = 1 THEN [ok |-> TRUE, err |-> "", x |-> ts[1]]
    ELSE LET rest == TorchConcatenate(Tail(ts))
         IN IF ~rest.ok THEN rest
            ELSE IF Lead(Head(ts)) # Lead(rest.x)
              THEN [ok |-> FALSE,
                    err |-> "RuntimeError: sizes of tensors must match except in dimension -1",
                    x |-> NoTensor]
            ELSE [ok |-> TRUE, err |-> "", x |-> TorchConcatenate2(Head(ts), rest.x)]

\* a narrowing that gives every index one more than it was
ToInt32Shifted(t) == [shape |-> t.shape, data |-> [n \in DOMAIN t.data |-> t.data[n] + 1]]

\* idx.to(dtype=torch.int32): a column index is below the row width, far
\* inside the signed 32-bit range, where the narrowing keeps the value
ToInt32(t) == [shape |-> t.shape, data |-> [n \in DOMAIN t.data |-> t.data[n]]]

\* torch.zeros(shape)
\* a tensor of ones
TorchOnes(shape) == [shape |-> shape, data |-> [n \in 1..Prod(shape) |-> 1]]

TorchZeros(shape) == [shape |-> shape, data |-> [n \in 1..Prod(shape) |-> 0]]

\* rearrange(t, "y h x w -> y x (h w)")
RearrangeFlatten(t) ==
    LET Y == t.shape[1]
        H == t.shape[2]
        X == t.shape[3]
        W == t.shape[4]
    IN [shape |-> <<Y, X, H * W>>,
        data  |-> [n \in 1..(Y * X * H * W) |->
                     LET y == (n - 1) \div (X * H * W)
                         xx == ((n - 1) \div (H * W)) % X
                         h == ((n - 1) \div W) % H
                         w == (n - 1) % W
                     IN t.data[((y * H + h) * X + xx) * W + w + 1]]]

\* a rearrange that splits the last axis but leaves the axes in view order
RearrangeUnflattenNoSwap(t, w) ==
    [shape |-> <<t.shape[1], t.shape[2], t.shape[3] \div w, w>>, data |-> t.data]

\* rearrange(t, "y x (h w) -> y h x w", w=w)
RearrangeUnflatten(t, w) ==
    LET Y == t.shape[1]
        X == t.shape[2]
        W == w
        H == t.shape[3] \div w
    IN [shape |-> <<Y, H, X, W>>,
        data  |-> [n \in 1..(Y * H * X * W) |->
                     LET y == (n - 1) \div (H * X * W)
                         h == ((n - 1) \div (X * W)) % H
                         xx == ((n - 1) \div W) % X
                         ww == (n - 1) % W
                     IN t.data[(y * X + xx) * (H * W) + h * W + ww + 1]]]


\* a scatter_add_ that wraps an index into the row instead of refusing it
TorchScatterAddWrapped(self, index, src) ==
    LET k == NumCols(index)
        mi(m) == Unravel(Lead(index), (m - 1) \div k)
        srcAt(m) == At(src, Ravel(Lead(src), mi(m)), (m - 1) % k)
        target(m) == Ravel(Lead(self), mi(m)) * NumCols(self)
                     + (index.data[m] % NumCols(self)) + 1
    IN IF Len(index.data) = 0 THEN [ok |-> TRUE, err |-> "", x |-> self]
       ELSE IF \/ Len(index.shape) # Len(self.shape)
               \/ Len(index.shape) # Len(src.shape)
               \/ ~DimsLeq(Lead(index), Lead(self))
               \/ ~DimsLeq(index.shape, src.shape)
         THEN [ok |-> FALSE, err |-> "RuntimeError: index is larger than self or src",
               x |-> NoTensor]
       ELSE [ok |-> TRUE, err |-> "",
             x |-> [shape |-> self.shape,
                    data |-> [n \in DOMAIN self.data |->
                                self.data[n]
                                + SumSeq([m \in DOMAIN index.data |->
                                            IF target(m) = n THEN srcAt(m) ELSE 0])]]]

\* a scatter that overwrites: the last value written to a column stays
TorchScatterOverwrite(self, index, src) ==
    LET k == NumCols(index)
        mi(m) == Unravel(Lead(index), (m - 1) \div k)
        srcAt(m) == At(src, Ravel(Lead(src), mi(m)), (m - 1) % k)
        target(m) == Ravel(Lead(self), mi(m)) * NumCols(self) + index.data[m] + 1
        writers(n) == {m \in DOMAIN index.data : target(m) = n}
        last(n) == CHOOSE m \in writers(n) : \A m2 \in writers(n) : m2 <= m
    IN IF Len(index.data) = 0 THEN [ok |-> TRUE, err |-> "", x |-> self]
       ELSE IF \/ Len(index.shape) # Len(self.shape)
               \/ Len(index.shape) # Len(src.shape)
               \/ ~DimsLeq(Lead(index), Lead(self))
               \/ ~DimsLeq(index.shape, src.shape)
               \/ \E m \in DOMAIN index.data :
                     index.data[m] < 0 \/ index.data[m] >= NumCols(self)
         THEN [ok |-> FALSE, err |-> "RuntimeError", x |-> NoTensor]
       ELSE [ok |-> TRUE, err |-> "",
             x |-> [shape |-> self.shape,
                    data |-> [n \in DOMAIN self.data |->
                                IF writers(n) = {} THEN self.data[n]
                                ELSE srcAt(last(n))]]]

\* self.scatter_add_(dim=-1, index=index, src=src) on the CPU.  torch first
\* checks the shapes (an empty index is accepted as it is), then walks the
\* index and checks every entry against the size of the last axis.
TorchScatterAdd(self, index, src) ==
    LET failed(e) == [ok |-> FALSE, err |-> e, x |-> NoTensor]
        k == NumCols(index)
        \* the slice of self and of src the m-th index entry belongs to
        mi(m) == Unravel(Lead(index), (m - 1) \div k)
        selfRow(m) == Ravel(Lead(self), mi(m))
        srcAt(m) == At(src, Ravel(Lead(src), mi(m)), (m - 1) % k)
        target(m) == selfRow(m) * NumCols(self) + index.data[m] + 1
    IN IF Len(index.data) = 0
         THEN [ok |-> TRUE, err |-> "", x |-> self]
       ELSE IF \/ Len(index.shape) # Len(self.shape)
               \/ Len(index.shape) # Len(src.shape)
         THEN failed("RuntimeError: index, self and src differ in rank")
       ELSE IF \/ ~DimsLeq(Lead(index), Lead(self))
               \/ ~DimsLeq(index.shape, src.shape)
         THEN failed("RuntimeError: index is larger than self or src")
       ELSE IF \E m \in DOMAIN index.data :
                  index.data[m] < 0 \/ index.data[m] >= NumCols(self)
         THEN failed("RuntimeError: index out of bounds")
       ELSE [ok  |-> TRUE,
             err |-> "",
             x   |-> [shape |-> self.shape,
                      data  |-> [n \in DOMAIN self.data |->
                                   self.data[n]
                                   + SumSeq([m \in DOMAIN index.data |->
                                               IF target(m) = n THEN srcAt(m) ELSE 0])]]]

----------------------------------------------------------------------------
(* class CompressDCT *)

\* the value compress writes over the random draw at the top-k columns
Poison == -1

\* __init__(self, topk, randk): the fields of the new object.  Lines 15-16
\* assign the parameter topk, a local of __init__; the object is not touched.
CompressDCT_init(topk, randk) ==
    LET self == [topk |-> topk, randk |-> randk]
        topk_local == IF topk = 0 /\ randk = 0 THEN 1 ELSE topk
    IN self

\* a view that flattens everything but the first axis into the rows
compress_view_whole(t) ==
    IF Len(t.shape) > 2
    THEN [shape |-> <<t.shape[1], Prod(Tail(t.shape))>>, data |-> t.data]
    ELSE t

\* lines 20-24: the view compress works on
compress_view(t) == IF Len(t.shape) > 2 THEN RearrangeFlatten(t) ELSE t

\* a top-k taken over the signed values instead of their magnitudes
compress_top_idx_signed(xv, topk) ==
    IF topk > 0 THEN TorchTopkIndices(xv, topk) ELSE {NoTensor}

\* lines 33-36: the tensors top_idx may be
compress_top_idx(xv, topk) ==
    IF topk > 0 THEN TorchTopkIndices(TorchAbs(xv), topk) ELSE {NoTensor}

\* a random draw whose top-k columns are not excluded
compress_poison_skipped(rand_x, top_idx, topk) == rand_x

\* line 41: the random draw with the top-k columns overwritten
compress_poison(rand_x, top_idx, topk) ==
    IF topk > 0 THEN TorchScatterValue(rand_x, top_idx, Poison) ELSE rand_x

\* lines 38-44: the tensors rand_idx may be
compress_rand_idx(xv, top_idx, topk, randk) ==
    IF randk > 0
    THEN UNION {TorchTopkIndices(compress_poison(rand_x, top_idx, topk), randk) :
                    rand_x \in TorchRandLike(xv)}
    ELSE {NoTensor}

\* an index list with the random-k part ahead of the top-k part
compress_all_idx_rand_first(top_idx, rand_idx, topk, randk) ==
    IF randk > 0 /\ topk > 0 THEN TorchConcatenate2(rand_idx, top_idx)
    ELSE IF topk > 0 THEN top_idx
    ELSE IF randk > 0 THEN rand_idx
    ELSE NoTensor

\* lines 46-51
compress_all_idx(top_idx, rand_idx, topk, randk) ==
    IF randk > 0 /\ topk > 0 THEN TorchConcatenate2(top_idx, rand_idx)
    ELSE IF topk > 0 THEN top_idx
    ELSE IF randk > 0 THEN rand_idx
    ELSE NoTensor

\* a return that turns no selection into a delta of no indices
compress_return_empty(xv, all_idx, xshape) ==
    LET none == [shape |-> <<NumRows(xv), 0>>, data |-> <<>>]
    IN [ok |-> TRUE, err |-> "",
        all_idx |-> IF all_idx = NoTensor THEN none ELSE ToInt32(all_idx),
        val |-> IF all_idx = NoTensor THEN none ELSE TorchGather(xv, all_idx),
        xshape |-> xshape]

\* lines 53-55: torch.gather refuses the index None
compress_return(xv, all_idx, xshape) ==
    IF all_idx = NoTensor
    THEN [ok |-> FALSE, err |-> "TypeError: gather index is None",
          all_idx |-> NoTensor, val |-> NoTensor, xshape |-> xshape]
    ELSE [ok |-> TRUE, err |-> "",
          all_idx |-> ToInt32(all_idx), val |-> TorchGather(xv, all_idx),
          xshape |-> xshape]

\* a top-k capped one short of the row width
compress_topk_short(self, totalk) == Min(self.topk, totalk - 1)

\* line 27
compress_topk(self, totalk) == Min(self.topk, totalk)

\* a random-k capped by the whole row width
compress_remainingk_whole(totalk, topk) == totalk

\* line 28
compress_remainingk(totalk, topk) == totalk - topk

\* line 29
compress_randk(self, remainingk) == Min(self.randk, remainingk)

\* compress(self, x): every result the call may have
compress(self, t) ==
    LET xv == compress_view(t)
        totalk == NumCols(xv)
        topk == compress_topk(self, totalk)
        remainingk == compress_remainingk(totalk, topk)
        randk == compress_randk(self, remainingk)
    IN UNION {{compress_return(xv, compress_all_idx(top_idx, rand_idx, topk, randk),
                               t.shape) :
                  rand_idx \in compress_rand_idx(xv, top_idx, topk, randk)} :
              top_idx \in compress_top_idx(xv, topk)}

\* a compress that keeps the capped topk in the object
compress_self_capped(self, t) ==
    [self EXCEPT !.topk = Min(@, NumCols(compress_view(t)))]

\* the object after compress(self, x): the call binds locals only and
\* assigns no attribute of self
compress_self(self, t) == self

\* how many values compress(self, x) draws from the default generator:
\* torch.rand_like(x) draws one for every element, if the capped randk is
\* positive
compress_draws(self, t) ==
    LET xv == compress_view(t)
        totalk == NumCols(xv)
        topk == compress_topk(self, totalk)
        randk == compress_randk(self, compress_remainingk(totalk, topk))
    IN IF randk > 0 THEN Len(xv.data) ELSE 0

\* a compress that writes the poison into its argument, at the columns it
\* selected
compress_x_poisoned(t, d) ==
    IF d.ok /\ Len(t.shape) = 2
    THEN TorchScatterValue(t, d.all_idx, Poison)
    ELSE t

\* the caller's tensor after compress(self, x) has returned d: line 24 binds
\* the local x to a new tensor, line 39 allocates rand_x, and line 41, the
\* one in-place write of compress, writes into rand_x
compress_x(t, d) == t

\* the caller's delta d after decompress(self, idx, val, xshape):
\* idx.to(dtype=torch.int64) is a new tensor, scatter_add_ writes into x and
\* reads index and src, and xshape is read by torch.zeros and rearrange
decompress_args(d) == d

\* the caller's deltas ds after batch_decompress(self, batch):
\* torch.concatenate returns new tensors and xshapes[0] is read
batch_decompress_batch(ds) == ds

\* decompress, its first two statements: x is allocated and viewed by rows
decompress_x(xshape) ==
    LET zeros == TorchZeros(xshape)
    IN IF Len(xshape) > 2 THEN RearrangeFlatten(zeros) ELSE zeros

\* decompress, from x.scatter_add_ to the return
decompress_scatter(x, idx, val, xshape) ==
    LET added == TorchScatterAdd(x, idx, val)
    IN IF ~added.ok THEN added
       ELSE [ok |-> TRUE, err |-> "",
             x |-> IF Len(xshape) > 2
                   THEN RearrangeUnflatten(added.x, xshape[Len(xshape)])
                   ELSE added.x]

\* decompress(self, idx, val, xshape)
decompress(self, idx, val, xshape) ==
    decompress_scatter(decompress_x(xshape), idx, val, xshape)

\* the batch a caller hands to batch_decompress for the deltas ds: the
\* three parallel lists idx, val, xshapes
BatchOf(ds) ==
    <<[i \in DOMAIN ds |-> ds[i].all_idx],
      [i \in DOMAIN ds |-> ds[i].val],
      [i \in DOMAIN ds |-> ds[i].xshape]>>

\* a merge that takes the shape of the last shard
batch_decompress_last_shape(self, batch) ==
    LET idx == TorchConcatenate(batch[1])
        val == TorchConcatenate(batch[2])
        xshapes == batch[3]
    IN IF ~idx.ok THEN idx
       ELSE IF ~val.ok THEN val
       ELSE decompress(self, idx.x, val.x, xshapes[Len(xshapes)])

\* batch_decompress(self, batch) with device=None, dtype=None
batch_decompress(self, batch) ==
    LET idx == TorchConcatenate(batch[1])
        val == TorchConcatenate(batch[2])
        xshapes == batch[3]
    IN IF ~idx.ok THEN idx
       ELSE IF ~val.ok THEN val
       ELSE decompress(self, idx.x, val.x, xshapes[1])

----------------------------------------------------------------------------
(* The inputs of the model *)

\* the shape of the view compress and decompress work on
ViewShape(s) == IF Len(s) > 2 THEN <<s[1], s[3], s[2] * s[4]>> ELSE s

\* shapes of rank n with at most MaxElems elements and MaxCols view columns
ShapesOfRank(n) ==
    {s \in [1..n -> 1..MaxElems] :
        Prod(s) <= MaxElems /\ ViewShape(s)[Len(ViewShape(s))] <= MaxCols}

TensorsOfShape(s) == {[shape |-> s, data |-> d] : d \in [1..Prod(s) -> Vals]}

\* the rank-2 tensors and the rank-4 tensors (convolution kernels)
Tensors2 == UNION {TensorsOfShape(s) : s \in ShapesOfRank(2)}
Tensors4 == UNION {TensorsOfShape(s) : s \in ShapesOfRank(4)}

\* the rank-2 tensors compressed for a merge
MergeTensors == {t \in Tensors2 : Len(t.data) <= MaxMergeElems}

NoResult == [ok |-> FALSE, err |-> "", x |-> NoTensor]

\* no configuration read yet, no CompressDCT constructed yet
NoCodec == [topk |-> -1, randk |-> -1]

\* the process before main() is entered; exit is "" while it runs
NoProc == [argv |-> <<>>, config |-> "", stdin |-> "", i |-> 0,
           x |-> NoTensor, stdout |-> <<>>, exit |-> ""]

----------------------------------------------------------------------------
(* One codec session: construct, compress a tensor, decompress the result *)

\* the codec has been constructed with arguments in 0..maxk
Constructed(maxk) ==
    /\ \E topk \in 0..maxk, randk \in 0..maxk :
          /\ req = [topk |-> topk, randk |-> randk]
          /\ codec = CompressDCT_init(topk, randk)
    /\ xs = <<>>
    /\ deltas = <<>>
    /\ result = NoResult
    /\ pc = "constructed"
    /\ proc = NoProc
    /\ rng = 0

Init == Constructed(MaxK)

\* c.compress(t)
CompressCall(t) ==
    /\ pc = "constructed"
    /\ \E d \in compress(codec, t) :
          /\ xs' = <<compress_x(t, d)>>
          /\ deltas' = <<d>>
    /\ pc' = "compressed"
    /\ codec' = compress_self(codec, t)
    /\ rng' = rng + compress_draws(codec, t)
    /\ UNCHANGED <<req, result, proc>>

Compress == \E t \in Tensors2 : CompressCall(t)

Compress4 == \E t \in Tensors4 : CompressCall(t)

Decompress ==
    /\ pc \in {"compressed", "received"}
    /\ Len(deltas) = 1
    /\ deltas[1].ok
    /\ result' = decompress(codec, deltas[1].all_idx, deltas[1].val, deltas[1].xshape)
    /\ deltas' = <<decompress_args(deltas[1])>>
    /\ pc' = "decompressed"
    /\ UNCHANGED <<req, codec, xs, proc, rng>>

Next == Compress \/ Decompress

Spec == Init /\ [][Next]_vars

\* the same session over a rank-4 tensor
Next4 == Compress4 \/ Decompress

Spec4 == Init /\ [][Next4]_vars

----------------------------------------------------------------------------
(* A merge: two tensors of one shape are compressed by the codec and the  *)
(* two results are handed to batch_decompress                             *)

CompressShard ==
    /\ pc \in {"constructed", "compressed"}
    /\ Len(xs) < 2
    /\ \A i \in DOMAIN deltas : deltas[i].ok
    /\ \E t \in MergeTensors :
          /\ xs # <<>> => t.shape = xs[1].shape
          /\ \E d \in compress(codec, t) :
                /\ xs' = Append(xs, compress_x(t, d))
                /\ deltas' = Append(deltas, d)
          /\ codec' = compress_self(codec, t)
          /\ rng' = rng + compress_draws(codec, t)
    /\ pc' = "compressed"
    /\ UNCHANGED <<req, result, proc>>

BatchDecompress ==
    /\ pc \in {"compressed", "received"}
    /\ Len(deltas) = 2
    /\ \A i \in DOMAIN deltas : deltas[i].ok
    /\ result' = batch_decompress(codec, BatchOf(deltas))
    /\ deltas' = batch_decompress_batch(deltas)
    /\ pc' = "merged"
    /\ UNCHANGED <<req, codec, xs, proc, rng>>

NextMerge == CompressShard \/ BatchDecompress

\* the codec of a merge has been constructed with topk in 0..MaxMergeElems
\* and randk 0 or 1
InitMerge ==
    /\ \E topk \in 0..MaxMergeElems, randk \in {0, 1} :
          /\ req = [topk |-> topk, randk |-> randk]
          /\ codec = CompressDCT_init(topk, randk)
    /\ xs = <<>>
    /\ deltas = <<>>
    /\ result = NoResult
    /\ pc = "constructed"
    /\ proc = NoProc
    /\ rng = 0

SpecMerge == InitMerge /\ [][NextMerge]_vars

----------------------------------------------------------------------------
(* Decoding what a peer sent: deltas that did not come from compress, with *)
(* any indices up to the row width and index and value lists of any length *)

\* all sequences over S of length at most n
SeqsUpTo(S, n) == UNION {[1..k -> S] : k \in 0..n}

\* the one-row deltas for a tensor of shape [1, cols] with at most maxIdx
\* indices, each in 0..cols, and at most maxVal values
CraftedDeltas(cols, maxIdx, maxVal) ==
    {[ok |-> TRUE, err |-> "",
      all_idx |-> [shape |-> <<1, Len(i)>>, data |-> i],
      val     |-> [shape |-> <<1, Len(v)>>, data |-> v],
      xshape  |-> <<1, cols>>] :
        i \in SeqsUpTo(0..cols, maxIdx), v \in SeqsUpTo(CraftVals, maxVal)}

\* the number of indices, and of values, of the deltas at hand
IdxCount == SumSeq([i \in DOMAIN deltas |-> Len(deltas[i].all_idx.data)])
ValCount == SumSeq([i \in DOMAIN deltas |-> Len(deltas[i].val.data)])

\* a delta arrives from a peer
Receive ==
    /\ pc \in {"constructed", "received"}
    /\ Len(deltas) < 2
    /\ \E cols \in 1..MaxCols :
          /\ deltas # <<>> => cols = deltas[1].xshape[2]
          /\ \E d \in CraftedDeltas(cols, MaxLen - IdxCount, MaxLen - ValCount) :
                deltas' = Append(deltas, d)
    /\ pc' = "received"
    /\ UNCHANGED <<req, codec, xs, result, proc, rng>>

\* CompressDCT() with the default arguments topk=1, randk=0
InitDecode ==
    /\ req = [topk |-> 1, randk |-> 0]
    /\ codec = CompressDCT_init(1, 0)
    /\ xs = <<>>
    /\ deltas = <<>>
    /\ result = NoResult
    /\ pc = "constructed"
    /\ proc = NoProc
    /\ rng = 0

NextDecode == Receive \/ Decompress \/ BatchDecompress

SpecDecode == InitDecode /\ [][NextDecode]_vars

----------------------------------------------------------------------------
(* The command-line tool: main() reads a configuration file and a JSON     *)
(* document on stdin, decompresses each tensor of the document in turn and *)
(* writes its float32 bytes to stdout                                      *)

RECURSIVE Log2Floor(_)
Log2Floor(a) == IF a < 2 THEN 0 ELSE 1 + Log2Floor(a \div 2)

RECURSIVE Pow2(_)
Pow2(n) == IF n = 0 THEN 1 ELSE 2 * Pow2(n - 1)

\* the four bytes of the float32 v, least significant first, for an integer
\* v of magnitude below 2^24: sign bit, exponent biased by 127, 23 bits of
\* mantissa
Float32Bytes(v) ==
    IF v = 0 THEN <<0, 0, 0, 0>>
    ELSE LET a == AbsVal(v)
             e == Log2Floor(a)
             biased == e + 127
             mant == (a - Pow2(e)) * Pow2(23 - e)
             sign == IF v < 0 THEN 1 ELSE 0
         IN <<mant % 256,
              (mant \div 256) % 256,
              (biased % 2) * 128 + (mant \div 65536),
              sign * 128 + (biased \div 2)>>

\* result.numpy().astype(np.float32).tobytes()
TensorBytes(t) ==
    [n \in 1..(4 * Len(t.data)) |->
        Float32Bytes(t.data[((n - 1) \div 4) + 1])[((n - 1) % 4) + 1]]

\* the nested list a tensor with one leading dimension is written as in JSON
NestedList(t) == [r \in 1..NumRows(t) |-> Row(t, r - 1)]

\* torch.Tensor(nested) for a list of rows of one length; the whole numbers
\* of the document are float32 values that idx.to(dtype=torch.int64) in
\* decompress turns back into the same whole numbers
TorchTensor(nested) == FromRows(<<Len(nested)>>, Len(nested[1]), nested)

DropLast(s) == SubSeq(s, 1, Len(s) - 1)

\* the JSON object {"all_idx": [...], "val": [...], "shape": [...]} of a
\* batch, whole or with the last entry of one of the lists missing
DistroObject(batch, short) ==
    LET all_idx == [i \in DOMAIN batch |-> NestedList(batch[i].all_idx)]
        val     == [i \in DOMAIN batch |-> NestedList(batch[i].val)]
        shape   == [i \in DOMAIN batch |-> batch[i].xshape]
    IN [all_idx |-> IF short = "all_idx" THEN DropLast(all_idx) ELSE all_idx,
        val     |-> IF short = "val" THEN DropLast(val) ELSE val,
        shape   |-> IF short = "shape" THEN DropLast(shape) ELSE shape]

\* a document on stdin: text that is not JSON, an object, or a list of
\* len copies of an object
StdinDoc(kind, len, o) ==
    [kind  |-> kind,
     items |-> IF kind = "invalid" THEN <<>>
               ELSE IF kind = "object" THEN <<o>>
               ELSE [i \in 1..len |-> o]]

\* the widths of the tensors of a document
DocCols == 1..(MaxCols - 1)

\* the kinds of document and the lengths of a list
DocForms ==
    {<<"invalid", 0>>, <<"object", 1>>, <<"list", 0>>, <<"list", 1>>, <<"list", 2>>}

\* what of the document the process keeps on record: its kind, the length
\* of the list and the lengths of the three lists of its first object
FormOf(doc) ==
    [kind |-> doc.kind,
     len  |-> Len(doc.items),
     lens |-> IF doc.items = <<>> THEN <<>>
              ELSE <<Len(doc.items[1].all_idx), Len(doc.items[1].val),
                     Len(doc.items[1].shape)>>]

NoForm == [kind |-> "", len |-> 0, lens |-> <<>>]

\* what the configuration file may hold: text that is not JSON, or a
\* configuration with method.type, method.compress_topk, method.compress_randk
ConfigFiles ==
    {[valid |-> FALSE, type |-> "", compress_topk |-> 0, compress_randk |-> 0]}
    \cup {[valid |-> TRUE, type |-> ty, compress_topk |-> k, compress_randk |-> 0] :
            ty \in {"distro", "adamw"}, k \in {0, 1}}

NoConfig == [valid |-> FALSE, type |-> "", compress_topk |-> -1, compress_randk |-> -1]

\* one write to stdout: print(text) or sys.stdout.buffer.write(bytes)
Printed(text) == [text |-> text, bytes |-> <<>>]

\* a write that frames the bytes with their count
WrittenFramed(bytes) == [text |-> "", bytes |-> <<Len(bytes)>> \o bytes]

Written(bytes) == [text |-> "", bytes |-> bytes]

\* load_json_data on text that is not JSON: the message goes to stdout and
\* the process exits with status 1
load_json_data_invalid(p) ==
    [p EXCEPT !.stdout = Append(@, Printed("Error: Invalid JSON format in input data.")),
              !.exit = "SystemExit: 1"]

InitTool ==
    /\ req = NoCodec
    /\ codec = NoCodec
    /\ xs = <<>>
    /\ deltas = <<>>
    /\ result = NoResult
    /\ pc = "main"
    /\ proc = [argv |-> <<>>, config |-> NoConfig, stdin |-> NoForm, i |-> 0,
               x |-> NoTensor, stdout |-> <<>>, exit |-> ""]
    /\ rng = 0

\* if len(sys.argv) < 2: raise ValueError
Main_Args ==
    /\ pc = "main"
    /\ \E argv \in {<<"expand-distro.py">>, <<"expand-distro.py", "config.json">>} :
          IF Len(argv) < 2
          THEN /\ proc' = [proc EXCEPT !.argv = argv,
                             !.exit = "ValueError: Usage: cat <json_file> | python expand-distro.py <config_file_path>"]
               /\ pc' = "exited"
          ELSE /\ proc' = [proc EXCEPT !.argv = argv]
               /\ pc' = "args_ok"
    /\ UNCHANGED <<req, codec, xs, deltas, result, rng>>

\* a check that also refuses a configuration that selects nothing
main_type_is_distro_selecting(file) ==
    file.type = "distro" /\ ~(file.compress_topk = 0 /\ file.compress_randk = 0)

\* line 102: the one check main() makes of the configuration
main_type_is_distro(file) == file.type = "distro"

\* config = load_json_data(...) up to compress_randk = ...
Main_LoadConfig ==
    /\ pc = "args_ok"
    /\ \E file \in ConfigFiles :
          LET p == [proc EXCEPT !.config = file]
          IN IF ~file.valid
             THEN /\ proc' = load_json_data_invalid(p)
                  /\ pc' = "exited"
                  /\ req' = req
             ELSE IF ~main_type_is_distro(file)
             THEN /\ proc' = [p EXCEPT !.exit = "ValueError: Config method type must be distro"]
                  /\ pc' = "exited"
                  /\ req' = req
             ELSE /\ proc' = p
                  /\ pc' = "config_loaded"
                  /\ req' = [topk |-> file.compress_topk, randk |-> file.compress_randk]
    /\ UNCHANGED <<codec, xs, deltas, result, rng>>

NoRecord == [all_idx |-> <<>>, val |-> <<>>, shape |-> <<>>]

\* an unwrapping that takes no list at all
main_unwrap_strict(doc) ==
    IF doc.kind = "list"
    THEN [ok |-> FALSE, err |-> "ValueError: invalid distro data. array len must be 1.",
          json_data |-> NoRecord]
    ELSE [ok |-> TRUE, err |-> "", json_data |-> doc.items[1]]

\* if isinstance(json_data, list): a list of one element becomes that
\* element, a list of any other length is refused
main_unwrap(doc) ==
    IF doc.kind = "list"
    THEN IF Len(doc.items) # 1
         THEN [ok |-> FALSE, err |-> "ValueError: invalid distro data. array len must be 1.",
               json_data |-> NoRecord]
         ELSE [ok |-> TRUE, err |-> "", json_data |-> doc.items[1]]
    ELSE [ok |-> TRUE, err |-> "", json_data |-> doc.items[1]]

\* a check of the first two lists only
main_lens_match_two(json_data) ==
    Len(json_data.val) = Len(json_data.all_idx)

\* len(json_data["val"]) == len(json_data["all_idx"]) == len(json_data["shape"])
main_lens_match(json_data) ==
    /\ Len(json_data.val) = Len(json_data.all_idx)
    /\ Len(json_data.all_idx) = Len(json_data.shape)

\* zip(json_data["all_idx"], json_data["val"], json_data["shape"]): as many
\* triples as the shortest list has entries
main_zip(json_data) ==
    LET n == Min(Len(json_data.all_idx), Min(Len(json_data.val), Len(json_data.shape)))
    IN [i \in 1..n |-> [idx   |-> json_data.all_idx[i],
                        val   |-> json_data.val[i],
                        shape |-> json_data.shape[i]]]

\* input_data = sys.stdin.read() up to c = CompressDCT(...), for the
\* document doc on stdin: the process, the codec, the triples of the loop
\* and the position these statements leave
main_read_input(doc) ==
    LET p == [proc EXCEPT !.stdin = FormOf(doc)]
        unwrapped == main_unwrap(doc)
    IN IF doc.kind = "invalid"
       THEN [proc |-> load_json_data_invalid(p), pc |-> "exited",
             codec |-> codec, deltas |-> deltas]
       ELSE IF ~unwrapped.ok
       THEN [proc |-> [p EXCEPT !.exit = unwrapped.err], pc |-> "exited",
             codec |-> codec, deltas |-> deltas]
       ELSE IF ~main_lens_match(unwrapped.json_data)
       THEN [proc |-> [p EXCEPT !.exit = "ValueError: invalid distro data. lens dont match."],
             pc |-> "exited", codec |-> codec, deltas |-> deltas]
       ELSE [proc |-> p, pc |-> "loop",
             codec |-> CompressDCT_init(req.topk, req.randk),
             deltas |-> main_zip(unwrapped.json_data)]

Main_ReadInputDoc(doc) ==
    LET out == main_read_input(doc)
    IN /\ proc' = out.proc
       /\ pc' = out.pc
       /\ codec' = out.codec
       /\ deltas' = out.deltas

\* the document holds no, one or two deltas, their lengths within MaxLen in
\* all, whole or with the last entry of one of its lists missing
Main_ReadInput ==
    /\ pc = "config_loaded"
    /\ \E form \in DocForms :
          \/ Main_ReadInputDoc(StdinDoc(form[1], form[2], DistroObject(<<>>, "")))
          \/ \E cols \in DocCols, short \in {"", "all_idx", "val", "shape"} :
                \E d1 \in CraftedDeltas(cols, MaxLen, MaxLen) :
                   \/ Main_ReadInputDoc(
                         StdinDoc(form[1], form[2], DistroObject(<<d1>>, short)))
                   \/ \E d2 \in CraftedDeltas(cols, MaxLen - Len(d1.all_idx.data),
                                              MaxLen - Len(d1.val.data)) :
                         Main_ReadInputDoc(
                            StdinDoc(form[1], form[2], DistroObject(<<d1, d2>>, short)))
    /\ UNCHANGED <<req, xs, result, rng>>

\* the next turn of the loop enters c.decompress, which allocates x
Main_Zeros ==
    /\ pc = "loop"
    /\ proc.i < Len(deltas)
    /\ proc' = [proc EXCEPT !.x = decompress_x(deltas[proc.i + 1].shape)]
    /\ pc' = "allocated"
    /\ UNCHANGED <<req, codec, xs, deltas, result, rng>>

\* c.decompress goes on from x.scatter_add_; if it returns, the bytes of
\* the result are written to stdout
Main_ScatterWrite ==
    /\ pc = "allocated"
    /\ LET t == deltas[proc.i + 1]
           r == decompress_scatter(proc.x, TorchTensor(t.idx),
                                   TorchTensor(t.val), t.shape)
       IN /\ result' = r
          /\ IF r.ok
             THEN /\ proc' = [proc EXCEPT !.stdout = Append(@, Written(TensorBytes(r.x))),
                                          !.i = @ + 1,
                                          !.x = NoTensor]
                  /\ pc' = "loop"
             ELSE /\ proc' = [proc EXCEPT !.exit = r.err]
                  /\ pc' = "exited"
    /\ UNCHANGED <<req, codec, xs, deltas, rng>>

\* the loop is over and main returns
Main_Return ==
    /\ pc = "loop"
    /\ proc.i = Len(deltas)
    /\ proc' = [proc EXCEPT !.exit = "0"]
    /\ pc' = "exited"
    /\ UNCHANGED <<req, codec, xs, deltas, result, rng>>

NextTool ==
    \/ Main_Args
    \/ Main_LoadConfig
    \/ Main_ReadInput
    \/ Main_Zeros
    \/ Main_ScatterWrite
    \/ Main_Return

SpecTool == InitTool /\ [][NextTool]_vars

----------------------------------------------------------------------------
(* Calls on one codec in any order: two callers each compress a tensor of  *)
(* their own and decompress what they got, and the two compress results    *)
(* are merged, all on the same CompressDCT object.  Here xs, deltas,       *)
(* result and pc hold one entry for each caller, and result and pc a third *)
(* entry for the merge                                                     *)

Callers == {1, 2}

\* the tensors the callers compress: one row of elements 0 or 1
CallTensors ==
    {t \in MergeTensors : NumRows(t) = 1 /\ Range(t.data) \subseteq {0, 1}}

NoDelta == [ok |-> FALSE, err |-> "", all_idx |-> NoTensor, val |-> NoTensor,
            xshape |-> <<>>]

\* the arguments the shared codec is constructed with: topk, randk
CallArgs == {0, 1, 2} \X {0, 1}

InitInterleave ==
    /\ \E topk \in {a[1] : a \in CallArgs}, randk \in {a[2] : a \in CallArgs} :
          /\ req = [topk |-> topk, randk |-> randk]
          /\ codec = CompressDCT_init(topk, randk)
    /\ xs = <<NoTensor, NoTensor>>
    /\ deltas = <<NoDelta, NoDelta>>
    /\ result = <<NoResult, NoResult, NoResult>>
    /\ pc = <<"idle", "idle", "idle">>
    /\ proc = NoProc
    /\ rng = 0

\* caller i: c.compress(t)
CallCompressOf(i, t) ==
    /\ pc[i] = "idle"
    /\ \E d \in compress(codec, t) :
          /\ xs' = [xs EXCEPT ![i] = compress_x(t, d)]
          /\ deltas' = [deltas EXCEPT ![i] = d]
    /\ codec' = compress_self(codec, t)
    /\ rng' = rng + compress_draws(codec, t)
    /\ pc' = [pc EXCEPT ![i] = "compressed"]
    /\ UNCHANGED <<req, result, proc>>

CallCompress(i) == \E t \in CallTensors : CallCompressOf(i, t)

\* caller i: c.decompress(idx, val, xshape) of what its compress returned,
\* any number of times
CallDecompress(i) ==
    /\ pc[i] \in {"compressed", "decompressed"}
    /\ deltas[i].ok
    /\ result' = [result EXCEPT ![i] = decompress(codec, deltas[i].all_idx,
                                                  deltas[i].val, deltas[i].xshape)]
    /\ deltas' = [deltas EXCEPT ![i] = decompress_args(deltas[i])]
    /\ pc' = [pc EXCEPT ![i] = "decompressed"]
    /\ UNCHANGED <<req, codec, xs, proc, rng>>

\* c.batch_decompress of the two compress results
CallMerge ==
    /\ pc[3] = "idle"
    /\ \A i \in Callers : pc[i] # "idle" /\ deltas[i].ok
    /\ result' = [result EXCEPT ![3] = batch_decompress(codec, BatchOf(deltas))]
    /\ deltas' = batch_decompress_batch(deltas)
    /\ pc' = [pc EXCEPT ![3] = "merged"]
    /\ UNCHANGED <<req, codec, xs, proc, rng>>

NextInterleave ==
    \/ \E i \in Callers : CallCompress(i)
    \/ \E i \in Callers : CallDecompress(i)
    \/ CallMerge

SpecInterleave == InitInterleave /\ [][NextInterleave]_vars

----------------------------------------------------------------------------
(* The cloud test scripts gcp-test.py: src/shared/network/gcp-test.py      *)
(* starts its instances one after the other with start_container, and      *)
(* src/network/gcp-test.py starts them all with Popen and then waits for   *)
(* each.  Here proc is the process of the script: its arguments, the list  *)
(* containers, the loop counters, the gcloud commands issued so far, the   *)
(* signals received and the way it ended.  pc is the stack of the main     *)
(* thread: pc[1] is the module code, and every entry above it a            *)
(* signal_handler that was entered where the entry below it stood          *)

\* the scripts
Scripts == {"src/shared/network/gcp-test.py", "src/network/gcp-test.py"}

\* num_containers is at most MaxContainers, --runtime at most MaxRuntime
\* seconds, and at most MaxSignals signals reach the process
MaxContainers == 2
MaxRuntime == 1
MaxSignals == 2

\* container_name = f"p{run_id}-container-{i}", without the p in
\* src/network/gcp-test.py
container_name(script, i) ==
    [prefix |-> IF script = "src/shared/network/gcp-test.py" THEN "p" ELSE "",
     run_id |-> "run_id", i |-> i]

\* a gcloud compute instances command
Gcloud(op, name) == [op |-> op, name |-> name]

\* one entry of the stack
Frame(at, k, exc) == [at |-> at, k |-> k, exc |-> exc]

\* the positions of the module code inside the try statement
InTry == {"spin", "create", "join", "wait"}

\* the process has not ended
Running == pc[1].at # "exited"

\* the module code is what runs: no signal_handler is on the stack
MainRuns == Running /\ Len(pc) = 1

\* the main frame moves to position at
MainAt(at, k, exc) == <<Frame(at, k, exc)>>

InitHarness ==
    /\ req = NoCodec
    /\ codec = NoCodec
    /\ xs = <<>>
    /\ deltas = <<>>
    /\ result = NoResult
    /\ rng = 0
    /\ pc = MainAt("start", 0, "")
    /\ \E script \in Scripts, n \in 0..MaxContainers, runtime \in 0..MaxRuntime :
          proc = [script |-> script, num_containers |-> n, runtime |-> runtime,
                  containers |-> <<>>, i |-> 0, slept |-> 0, cmds |-> <<>>,
                  signals |-> 0, exit |-> ""]

\* the handlers are registered and the arguments parsed: run_id is drawn
\* and the try statement entered
GcpTry ==
    /\ MainRuns
    /\ pc[1].at = "start"
    /\ pc' = MainAt("spin", 0, "")
    /\ UNCHANGED <<req, codec, xs, deltas, result, proc, rng>>

\* for i in range(args.num_containers): containers.append(container_name)
GcpAppend ==
    /\ MainRuns
    /\ pc[1].at = "spin"
    /\ proc.i < proc.num_containers
    /\ proc' = [proc EXCEPT !.containers =
                                Append(@, container_name(proc.script, proc.i))]
    /\ pc' = MainAt("create", 0, "")
    /\ UNCHANGED <<req, codec, xs, deltas, result, rng>>

\* start_container(...): subprocess.run of the create command with
\* check=True.  The command succeeds, or fails with CalledProcessError,
\* which start_container catches, or cannot be run at all (OSError), which
\* nothing catches
GcpStartContainer ==
    /\ MainRuns
    /\ pc[1].at = "create"
    /\ proc.script = "src/shared/network/gcp-test.py"
    /\ \E outcome \in {"started", "CalledProcessError", "OSError"} :
          IF outcome = "OSError"
          THEN /\ pc' = MainAt("cleanup", 0, "OSError")
               /\ proc' = proc
          ELSE /\ pc' = MainAt("spin", 0, "")
               /\ proc' = [proc EXCEPT
                              !.cmds = Append(@, Gcloud("create-with-container",
                                                        proc.containers[proc.i + 1])),
                              !.i = @ + 1]
    /\ UNCHANGED <<req, codec, xs, deltas, result, rng>>

\* p = subprocess.Popen of the create command; start_threads.append(p)
GcpPopen ==
    /\ MainRuns
    /\ pc[1].at = "create"
    /\ proc.script = "src/network/gcp-test.py"
    /\ \E outcome \in {"spawned", "OSError"} :
          IF outcome = "OSError"
          THEN /\ pc' = MainAt("cleanup", 0, "OSError")
               /\ proc' = proc
          ELSE /\ pc' = MainAt("spin", 0, "")
               /\ proc' = [proc EXCEPT
                              !.cmds = Append(@, Gcloud("create-with-container",
                                                        proc.containers[proc.i + 1])),
                              !.i = @ + 1]
    /\ UNCHANGED <<req, codec, xs, deltas, result, rng>>

\* the for loop over range(args.num_containers) is over
GcpSpinDone ==
    /\ MainRuns
    /\ pc[1].at = "spin"
    /\ proc.i >= proc.num_containers
    /\ pc' = MainAt(IF proc.script = "src/network/gcp-test.py" THEN "join" ELSE "wait",
                    0, "")
    /\ UNCHANGED <<req, codec, xs, deltas, result, proc, rng>>

\* for thread in start_threads: result = thread.wait() is the return code,
\* an int, and result.returncode raises AttributeError on the first turn;
\* the branch with containers.remove is never reached
GcpJoin ==
    /\ MainRuns
    /\ pc[1].at = "join"
    /\ pc' = IF proc.i > 0 THEN MainAt("cleanup", 0, "AttributeError")
                           ELSE MainAt("wait", 0, "")
    /\ UNCHANGED <<req, codec, xs, deltas, result, proc, rng>>

\* for i in range(args.runtime): time.sleep(1)
GcpSleep ==
    /\ MainRuns
    /\ pc[1].at = "wait"
    /\ proc.slept < proc.runtime
    /\ proc' = [proc EXCEPT !.slept = @ + 1]
    /\ UNCHANGED <<req, codec, xs, deltas, result, pc, rng>>

\* the wait is over: the try statement is left for its finally clause
GcpWaitDone ==
    /\ MainRuns
    /\ pc[1].at = "wait"
    /\ proc.slept >= proc.runtime
    /\ pc' = MainAt("cleanup", 0, "")
    /\ UNCHANGED <<req, codec, xs, deltas, result, proc, rng>>

\* cleanup(), one turn of its loop in the frame on top of the stack: the
\* delete command of the next container is run
cleanup_delete ==
    LET top == pc[Len(pc)]
    IN /\ top.k < Len(proc.containers)
       /\ proc' = [proc EXCEPT
                      !.cmds = Append(@, Gcloud("delete", proc.containers[top.k + 1]))]
       /\ pc' = [pc EXCEPT ![Len(pc)].k = @ + 1]

\* finally: cleanup(), one turn
GcpCleanupDelete ==
    /\ MainRuns
    /\ pc[1].at = "cleanup"
    /\ cleanup_delete
    /\ UNCHANGED <<req, codec, xs, deltas, result, rng>>

\* cleanup() returns in the finally clause: the exception that led here is
\* raised again and ends the process, or the module code goes on
GcpCleanupDone ==
    /\ MainRuns
    /\ pc[1].at = "cleanup"
    /\ pc[1].k >= Len(proc.containers)
    /\ IF pc[1].exc = ""
       THEN /\ pc' = MainAt("end", 0, "")
            /\ proc' = proc
       ELSE /\ pc' = MainAt("exited", 0, "")
            /\ proc' = [proc EXCEPT !.exit = pc[1].exc]
    /\ UNCHANGED <<req, codec, xs, deltas, result, rng>>

\* print("Script completed successfully.") and the end of the module
GcpCompleted ==
    /\ MainRuns
    /\ pc[1].at = "end"
    /\ pc' = MainAt("exited", 0, "")
    /\ proc' = [proc EXCEPT !.exit = "0"]
    /\ UNCHANGED <<req, codec, xs, deltas, result, rng>>

\* SIGINT or SIGTERM reaches the process: signal_handler is entered on the
\* main thread, wherever it stands, inside another signal_handler included
GcpSignal ==
    /\ Running
    /\ proc.signals < MaxSignals
    /\ \E sig \in {"SIGINT", "SIGTERM"} :
          pc' = Append(pc, Frame("signal_handler", 0, sig))
    /\ proc' = [proc EXCEPT !.signals = @ + 1]
    /\ UNCHANGED <<req, codec, xs, deltas, result, rng>>

\* signal_handler: cleanup(), one turn
GcpHandlerDelete ==
    /\ Running
    /\ Len(pc) > 1
    /\ cleanup_delete
    /\ UNCHANGED <<req, codec, xs, deltas, result, rng>>

\* signal_handler: cleanup() returns and sys.exit(0) raises SystemExit.  No
\* signal_handler below catches it; in the module code it leaves the try
\* statement for the finally clause, or, outside the try statement and
\* inside the finally clause, ends the process
GcpHandlerExit ==
    /\ Running
    /\ Len(pc) > 1
    /\ pc[Len(pc)].k >= Len(proc.containers)
    /\ IF pc[1].at \in InTry
       THEN /\ pc' = MainAt("cleanup", 0, "SystemExit: 0")
            /\ proc' = proc
       ELSE /\ pc' = MainAt("exited", 0, "")
            /\ proc' = [proc EXCEPT !.exit = "SystemExit: 0"]
    /\ UNCHANGED <<req, codec, xs, deltas, result, rng>>

NextHarness ==
    \/ GcpTry
    \/ GcpAppend
    \/ GcpStartContainer
    \/ GcpPopen
    \/ GcpSpinDone
    \/ GcpJoin
    \/ GcpSleep
    \/ GcpWaitDone
    \/ GcpCleanupDelete
    \/ GcpCleanupDone
    \/ GcpCompleted
    \/ GcpSignal
    \/ GcpHandlerDelete
    \/ GcpHandlerExit

SpecHarness == InitHarness /\ [][NextHarness]_vars

\* the process is scheduled until it ends; a signal need never come
FairHarness ==
    SpecHarness
    /\ WF_vars(GcpTry \/ GcpAppend \/ GcpStartContainer \/ GcpPopen
                 \/ GcpSpinDone \/ GcpJoin \/ GcpSleep \/ GcpWaitDone
                 \/ GcpCleanupDelete \/ GcpCleanupDone \/ GcpCompleted
                 \/ GcpHandlerDelete \/ GcpHandlerExit)

----------------------------------------------------------------------------
(* Properties of one codec session *)

Compressed == pc \in {"compressed", "decompressed"}

\* the size of the axis compress selects over for a tensor of shape s
TotalK(s) == IF Len(s) > 2 THEN s[2] * s[4] ELSE s[Len(s)]

\* the number of slices compress selects in for a tensor of shape s
TotalRows(s) == IF Len(s) > 2 THEN s[1] * s[3] ELSE Prod(SubSeq(s, 1, Len(s) - 1))

\* the indices of row r (0-based) of the compress result
IdxRow(r) == Row(deltas[1].all_idx, r)
ValRow(r) == Row(deltas[1].val, r)

\* C1: with topk >= totalk and randk = 0, compressing a rank-2 tensor
\* succeeds and decompressing the result gives the tensor back exactly
C1_LosslessRoundTrip ==
    (/\ Compressed
     /\ Len(xs[1].shape) = 2
     /\ codec.topk >= TotalK(xs[1].shape)
     /\ codec.randk = 0)
    => /\ deltas[1].ok
       /\ pc = "decompressed" => (result.ok /\ result.x = xs[1])

C1_Witness ==
    /\ pc = "decompressed"
    /\ xs[1] = [shape |-> <<2, 2>>, data |-> <<1, -1, 0, 1>>]
    /\ codec = [topk |-> 3, randk |-> 0]
    /\ result.ok
    /\ result.x = xs[1]

\* the number of indices the claim gives a row of width totalk
ExpectedLen(topk, randk, totalk) ==
    Min(topk, totalk) + Min(randk, totalk - Min(topk, totalk))

\* C2: with topk or randk positive, every row of a compress result holds
\* min(topk, totalk) + min(randk, totalk - min(topk, totalk)) indices, as
\* many values, and never more than totalk
C2_SparsityBound ==
    (Compressed /\ (codec.topk > 0 \/ codec.randk > 0))
    => LET totalk == TotalK(xs[1].shape)
           n == ExpectedLen(codec.topk, codec.randk, totalk)
       IN /\ deltas[1].ok
          /\ NumRows(deltas[1].all_idx) = TotalRows(xs[1].shape)
          /\ NumRows(deltas[1].val) = TotalRows(xs[1].shape)
          /\ \A r \in 0..(TotalRows(xs[1].shape) - 1) :
                /\ Len(IdxRow(r)) = n
                /\ Len(ValRow(r)) = n
                /\ Len(IdxRow(r)) <= totalk

C2_Witness ==
    /\ pc = "compressed"
    /\ xs[1].shape = <<2, 2>>
    /\ codec = [topk |-> 1, randk |-> 3]
    /\ deltas[1].ok
    /\ deltas[1].all_idx.shape = <<2, 2>>
    /\ deltas[1].val.shape = <<2, 2>>

\* C3: with topk and randk positive, no index of a row's random-k part is
\* in the row's top-k part, and no index occurs twice in the row
C3_Disjoint ==
    (Compressed /\ codec.topk > 0 /\ codec.randk > 0 /\ deltas[1].ok)
    => \A r \in 0..(NumRows(deltas[1].all_idx) - 1) :
          LET row == IdxRow(r)
              k == Min(codec.topk, TotalK(xs[1].shape))
          IN /\ \A i \in 1..k : \A j \in (k + 1)..Len(row) : row[i] # row[j]
             /\ \A i, j \in 1..Len(row) : i # j => row[i] # row[j]

C3_Witness ==
    /\ pc = "compressed"
    /\ xs[1] = [shape |-> <<1, 3>>, data |-> <<0, -1, 1>>]
    /\ codec = [topk |-> 1, randk |-> 1]
    /\ deltas[1].ok
    /\ deltas[1].all_idx.data = <<1, 0>>

\* the element of t the view has at row r, column c (both 0-based)
ViewAt(t, r, c) ==
    IF Len(t.shape) > 2
    THEN LET y == r \div t.shape[3]
             xx == r % t.shape[3]
             h == c \div t.shape[4]
             w == c % t.shape[4]
         IN t.data[((y * t.shape[2] + h) * t.shape[3] + xx) * t.shape[4] + w + 1]
    ELSE t.data[r * t.shape[Len(t.shape)] + c + 1]

\* C5: decompressing the compress result of a rank-4 tensor gives a tensor
\* of the same shape [O, I, H, W] that holds, at every position the index
\* lists name, the element the input has there, and 0 elsewhere
C5_ShapeFidelity ==
    (pc = "decompressed" /\ Len(xs[1].shape) = 4)
    => LET t == xs[1]
           I == t.shape[2]
           H == t.shape[3]
           W == t.shape[4]
           \* whether the index lists name the position with flat number n
           retained(n) ==
               LET o == (n - 1) \div (I * H * W)
                   i == ((n - 1) \div (H * W)) % I
                   kh == ((n - 1) \div W) % H
                   kw == (n - 1) % W
               IN (i * W + kw) \in Range(IdxRow(o * H + kh))
       IN /\ result.ok
          /\ result.x.shape = t.shape
          /\ Len(result.x.data) = Len(t.data)
          /\ \A n \in DOMAIN t.data :
                result.x.data[n] = IF retained(n) THEN t.data[n] ELSE 0

C5_Witness ==
    /\ pc = "decompressed"
    /\ xs[1] = [shape |-> <<1, 2, 2, 1>>, data |-> <<1, -1, 0, 1>>]
    /\ codec = [topk |-> 1, randk |-> 0]
    /\ result.ok
    /\ result.x = [shape |-> <<1, 2, 2, 1>>, data |-> <<1, -1, 0, 0>>]

\* C6: with topk positive, every column of a row's top-k part is at least
\* as large in magnitude as every column of the row outside it, and every
\* value emitted is the signed element at its index; the row [0, -1, 0]
\* with topk = 1, randk = 0 gives indices [1], values [-1] and decompresses
\* to [0, -1, 0]
C6_TopkByMagnitude ==
    (Compressed /\ codec.topk > 0)
    => /\ deltas[1].ok
       /\ \A r \in 0..(TotalRows(xs[1].shape) - 1) :
             LET totalk == TotalK(xs[1].shape)
                 k == Min(codec.topk, totalk)
                 row == IdxRow(r)
                 top == {row[i] : i \in 1..k}
             IN /\ Cardinality(top) = k
                /\ \A c \in top : \A c2 \in (0..(totalk - 1)) \ top :
                      AbsVal(ViewAt(xs[1], r, c)) >= AbsVal(ViewAt(xs[1], r, c2))
                /\ \A p \in 1..Len(row) : ValRow(r)[p] = ViewAt(xs[1], r, row[p])
       /\ (/\ xs[1] = [shape |-> <<1, 3>>, data |-> <<0, -1, 0>>]
           /\ codec = [topk |-> 1, randk |-> 0])
          => /\ deltas[1].all_idx.data = <<1>>
             /\ deltas[1].val.data = <<-1>>
             /\ pc = "decompressed" => result.x.data = <<0, -1, 0>>

C6_Witness ==
    /\ pc = "decompressed"
    /\ xs[1] = [shape |-> <<1, 3>>, data |-> <<0, -1, 0>>]
    /\ codec = [topk |-> 1, randk |-> 0]
    /\ deltas[1].all_idx.data = <<1>>
    /\ deltas[1].val.data = <<-1>>
    /\ result.x.data = <<0, -1, 0>>

\* C7: a codec constructed with topk = 0 and randk = 0 compresses any
\* tensor successfully, to exactly one index and one value per row
C7_ZeroConfigCoerced ==
    (Compressed /\ req = [topk |-> 0, randk |-> 0])
    => /\ deltas[1].ok
       /\ NumCols(deltas[1].all_idx) = 1
       /\ NumCols(deltas[1].val) = 1

----------------------------------------------------------------------------
(* Properties of a merge *)

\* C4: for two rank-2 tensors a, b of one shape, both compressed with topk
\* covering the row and randk = 0, the merge of the two results is a + b
\* at every position
C4_MergeAdditive ==
    (/\ pc = "merged"
     /\ Len(xs) = 2
     /\ Len(xs[1].shape) = 2
     /\ xs[2].shape = xs[1].shape
     /\ codec.topk >= TotalK(xs[1].shape)
     /\ codec.randk = 0)
    => /\ result.ok
       /\ result.x.shape = xs[1].shape
       /\ Len(result.x.data) = Len(xs[1].data)
       /\ \A n \in DOMAIN xs[1].data :
             result.x.data[n] = xs[1].data[n] + xs[2].data[n]

C4_Witness ==
    /\ pc = "merged"
    /\ xs = <<[shape |-> <<1, 2>>, data |-> <<1, -1>>],
              [shape |-> <<1, 2>>, data |-> <<1, 0>>]>>
    /\ codec = [topk |-> 2, randk |-> 0]
    /\ result.ok
    /\ result.x = [shape |-> <<1, 2>>, data |-> <<2, -1>>]

----------------------------------------------------------------------------
(* Properties of decoding what a peer sent *)

\* decompress or batch_decompress has been called on the deltas at hand
Decoded == pc \in {"decompressed", "merged"}

\* the column count of the rows the call decodes into
DecodeCols == deltas[1].xshape[Len(deltas[1].xshape)]

\* some index handed to the call is at or beyond the column count
HasIndexBeyond ==
    \E i \in DOMAIN deltas : \E m \in DOMAIN deltas[i].all_idx.data :
        deltas[i].all_idx.data[m] >= DecodeCols

\* some delta handed to the call has index and value lists of different
\* lengths
HasLengthMismatch ==
    \E i \in DOMAIN deltas : NumCols(deltas[i].all_idx) # NumCols(deltas[i].val)

IndexOutOfRange == "RuntimeError: index out of bounds"

ShapeMismatch == "RuntimeError: index is larger than self or src"

\* C8 as claimed: whenever an index handed to decompress or to the merge
\* is >= the column count, the call fails with the index error and returns
\* no tensor
C8_IndexRejectedAsClaimed ==
    (Decoded /\ HasIndexBeyond)
    => /\ ~result.ok
       /\ result.err = IndexOutOfRange
       /\ result.x = NoTensor

\* C8 as amended: whenever an index handed to decompress or to the merge
\* is >= the column count, the call fails and returns no tensor; the error
\* is the index error when the indices are no more than the values, and
\* the shape error, raised first, when there are more indices than values
C8_IndexRejected ==
    (Decoded /\ HasIndexBeyond)
    => /\ ~result.ok
       /\ result.x = NoTensor
       /\ IdxCount <= ValCount => result.err = IndexOutOfRange
       /\ IdxCount > ValCount => result.err = ShapeMismatch

C8_Witness ==
    /\ pc = "decompressed"
    /\ deltas[1].xshape = <<1, 2>>
    /\ deltas[1].all_idx.data = <<0, 2>>
    /\ deltas[1].val.data = <<1, -1>>
    /\ ~result.ok
    /\ result.err = IndexOutOfRange

\* C9: whenever the index list and the value list of a delta handed to
\* decompress or to the merge differ in length, in either direction, the
\* call fails with the shape error and returns no tensor
C9_LengthMismatchRejected ==
    (Decoded /\ HasLengthMismatch)
    => /\ ~result.ok
       /\ result.err = ShapeMismatch
       /\ result.x = NoTensor

----------------------------------------------------------------------------
(* Properties of the command-line tool *)

\* main() ended because a decompress call raised
DecompressFailed ==
    /\ pc = "exited"
    /\ proc.exit \in {IndexOutOfRange, ShapeMismatch}

\* C10: whenever a decompress call of the tool fails, no output tensor was
\* allocated by that call and no tensor bytes have been written to stdout
C10_NoPartialEffect ==
    DecompressFailed
    => /\ proc.x = NoTensor
       /\ \A k \in DOMAIN proc.stdout : proc.stdout[k].bytes = <<>>

RECURSIVE ConcatAll(_)
ConcatAll(seqs) == IF seqs = <<>> THEN <<>> ELSE Head(seqs) \o ConcatAll(Tail(seqs))

\* every byte written to stdout so far, in the order of the writes
StdoutBytes == ConcatAll([k \in DOMAIN proc.stdout |-> proc.stdout[k].bytes])

\* main() has read a document that passed its checks
InLoop == pc \in {"loop", "allocated"} \/ (pc = "exited" /\ proc.exit = "0")

\* the bytes of the i-th tensor of the document, decompressed on its own
AloneBytes(i) ==
    TensorBytes(decompress(codec, TorchTensor(deltas[i].idx),
                           TorchTensor(deltas[i].val), deltas[i].shape).x)

\* C11: after i turns of the loop stdout holds the bytes of tensors 1..i,
\* each decompressed on its own, in input order and with nothing between
\* them; when main() returns, stdout holds the bytes of all n tensors and
\* its length is 4 * the sum of the products of the shapes
C11_BatchedOutputOrder ==
    InLoop
    => LET bytes == StdoutBytes
       IN /\ bytes = ConcatAll([i \in 1..proc.i |-> AloneBytes(i)])
          /\ Len(bytes) = 4 * SumSeq([i \in 1..proc.i |-> Prod(deltas[i].shape)])
          /\ (pc = "exited" => proc.i = Len(deltas))

C11_Witness ==
    /\ pc = "exited"
    /\ proc.exit = "0"
    /\ Len(deltas) = 2
    /\ deltas[1] = [idx |-> <<<<0>>>>, val |-> <<<<1>>>>, shape |-> <<1, 2>>]
    /\ deltas[2] = [idx |-> <<<<1>>>>, val |-> <<<<-1>>>>, shape |-> <<1, 2>>]
    /\ StdoutBytes = <<0, 0, 128, 63, 0, 0, 0, 0, 0, 0, 0, 0, 0, 0, 128, 191>>

\* two outcomes of reading stdin that differ at most in the form of the
\* document kept on record
SameOutcome(a, b) ==
    /\ a.pc = b.pc
    /\ a.codec = b.codec
    /\ a.deltas = b.deltas
    /\ a.proc.exit = b.proc.exit
    /\ a.proc.stdout = b.proc.stdout
    /\ a.proc.i = b.proc.i
    /\ a.proc.x = b.proc.x

\* the record o alone and the list of the one record o leave main() at the
\* same position with the same triples, codec, output and exit status
UnwrappedAlike(o) ==
    SameOutcome(main_read_input(StdinDoc("list", 1, o)),
                main_read_input(StdinDoc("object", 1, o)))

\* the document on stdin was a list holding exactly one record
ListOfOne == proc.stdin.kind = "list" /\ proc.stdin.len = 1

\* C12: a list of exactly one record is read exactly as that record alone,
\* and what is written for it is what the record's triples alone give; a
\* list of any other length ends main() with an error before any tensor is
\* allocated, decompressed or written
C12_WrapperUnwrapped ==
    /\ pc = "config_loaded"
       => /\ UnwrappedAlike(DistroObject(<<>>, ""))
          /\ \A cols \in DocCols, short \in {"", "all_idx", "val", "shape"} :
                \A d1 \in CraftedDeltas(cols, MaxLen, MaxLen) :
                   /\ UnwrappedAlike(DistroObject(<<d1>>, short))
                   /\ \A d2 \in CraftedDeltas(cols, MaxLen - Len(d1.all_idx.data),
                                              MaxLen - Len(d1.val.data)) :
                         UnwrappedAlike(DistroObject(<<d1, d2>>, short))
    /\ (ListOfOne /\ pc = "exited" /\ proc.exit = "0")
       => StdoutBytes = ConcatAll([i \in 1..Len(deltas) |-> AloneBytes(i)])
    /\ (proc.stdin.kind = "list" /\ proc.stdin.len # 1)
       => /\ pc = "exited"
          /\ proc.exit = "ValueError: invalid distro data. array len must be 1."
          /\ proc.stdout = <<>>
          /\ proc.i = 0
          /\ proc.x = NoTensor
          /\ result = NoResult
          /\ deltas = <<>>

C12_Witness ==
    /\ pc = "exited"
    /\ proc.exit = "0"
    /\ ListOfOne
    /\ deltas = <<[idx |-> <<<<0>>>>, val |-> <<<<1>>>>, shape |-> <<1, 1>>]>>
    /\ StdoutBytes = <<0, 0, 128, 63>>

\* C13: whenever main() ends in a failure, the failure is an error raised
\* to the caller: the process is not terminated by sys.exit and the error
\* is not printed to stdout in place of being raised; in particular a
\* document that is not JSON ends in such an error
C13_ErrorsReported ==
    (pc = "exited" /\ proc.exit # "0")
    => /\ proc.exit # "SystemExit: 1"
       /\ \A k \in DOMAIN proc.stdout : proc.stdout[k].text = ""

----------------------------------------------------------------------------
(* Further properties of decoding what a peer sent *)

\* the sum of the values of row r whose index is column c
SumAt(idx, val, r, c) ==
    SumSeq([j \in 1..NumCols(idx) |->
              IF At(idx, r, j - 1) = c THEN At(val, r, j - 1) ELSE 0])

\* every index of the delta is a column and every index has its value
WellFormed(d) ==
    /\ NumCols(d.all_idx) = NumCols(d.val)
    /\ \A m \in DOMAIN d.all_idx.data :
          d.all_idx.data[m] < d.xshape[Len(d.xshape)]

\* C14: decompress of indices that are all columns, each with its value,
\* succeeds whether or not an index occurs more than once, and whenever
\* decompress succeeds the result has the given shape and holds at row r,
\* column c the sum of the values whose index in row r is c: the values of
\* an index that occurs m times are added up and a column that no index
\* names holds 0
C14_Accumulates ==
    pc = "decompressed"
    => LET d == deltas[1]
       IN /\ WellFormed(d) => result.ok
          /\ result.ok
             => /\ result.x.shape = d.xshape
                /\ \A r \in 0..(NumRows(result.x) - 1) :
                      \A c \in 0..(NumCols(result.x) - 1) :
                         At(result.x, r, c) = SumAt(d.all_idx, d.val, r, c)

C14_Witness ==
    /\ pc = "decompressed"
    /\ deltas[1].xshape = <<1, 2>>
    /\ deltas[1].all_idx.data = <<0, 0>>
    /\ deltas[1].val.data = <<1, 1>>
    /\ result.ok
    /\ result.x.data = <<2, 0>>

----------------------------------------------------------------------------
(* Further properties of a merge *)

\* row r of a followed by row r of b, for every row r
RowWise(a, b) ==
    [shape |-> Append(Lead(a), NumCols(a) + NumCols(b)),
     data  |-> ConcatAll([r \in 1..NumRows(a) |-> Row(a, r - 1) \o Row(b, r - 1)])]

\* decompress of the i-th shard on its own
ShardAlone(i) ==
    decompress(codec, deltas[i].all_idx, deltas[i].val, deltas[i].xshape)

\* C15: the merge of two compress results of one shape, whatever topk and
\* randk kept of the tensors, succeeds and holds at every position the sum
\* of what decompress gives for each shard on its own, not divided or
\* weighted by the number of shards; it is the decompress of the shards'
\* index rows and value rows put one after the other row by row
C15_MergePlainSum ==
    pc = "merged"
    => LET a == ShardAlone(1)
           b == ShardAlone(2)
       IN /\ result.ok
          /\ a.ok
          /\ b.ok
          /\ result.x.shape = a.x.shape
          /\ Len(result.x.data) = Len(a.x.data)
          /\ \A n \in DOMAIN result.x.data :
                result.x.data[n] = a.x.data[n] + b.x.data[n]
          /\ result = decompress(codec,
                                 RowWise(deltas[1].all_idx, deltas[2].all_idx),
                                 RowWise(deltas[1].val, deltas[2].val),
                                 deltas[1].xshape)

C15_Witness ==
    /\ pc = "merged"
    /\ xs = <<[shape |-> <<2, 1>>, data |-> <<1, -1>>],
              [shape |-> <<2, 1>>, data |-> <<1, 1>>]>>
    /\ codec = [topk |-> 1, randk |-> 0]
    /\ result.ok
    /\ result.x = [shape |-> <<2, 1>>, data |-> <<2, 0>>]

----------------------------------------------------------------------------
(* Further properties of one codec session *)

\* the session has compressed a rank-4 tensor [O, I, H, W] with a codec
\* that selects something
Compressed4 ==
    /\ Compressed
    /\ Len(xs[1].shape) = 4
    /\ (codec.topk > 0 \/ codec.randk > 0)

\* C16 as claimed: the compress result of a rank-4 tensor [O, I, H, W] has
\* O rows of indices and of values, one per output channel, each as long as
\* a row of width totalk = I*H*W makes it, and every index is a position
\* below I*H*W of the output channel flattened over (I, H, W), with the
\* element at that position as its value
C16_Rank4ViewAsClaimed ==
    Compressed4
    => LET s == xs[1].shape
           totalk == s[2] * s[3] * s[4]
           n == ExpectedLen(codec.topk, codec.randk, totalk)
           d == deltas[1]
       IN /\ d.ok
          /\ NumRows(d.all_idx) = s[1] /\ NumCols(d.all_idx) = n
          /\ NumRows(d.val) = s[1] /\ NumCols(d.val) = n
          /\ \A o \in 0..(s[1] - 1) : \A j \in 0..(n - 1) :
                /\ At(d.all_idx, o, j) \in 0..(totalk - 1)
                /\ At(d.val, o, j) = xs[1].data[o * totalk + At(d.all_idx, o, j) + 1]

\* C16 as amended: the compress result of a rank-4 tensor [O, I, H, W] has
\* O*H rows of indices and of values, laid out [O, H, n], one per output
\* channel and kernel row, each as long as a row of width totalk = I*W
\* makes it, and every index is a position i*W + w below I*W, with the
\* element [o, i, h, w] as its value
C16_Rank4View ==
    Compressed4
    => LET s == xs[1].shape
           totalk == s[2] * s[4]
           n == ExpectedLen(codec.topk, codec.randk, totalk)
           d == deltas[1]
       IN /\ d.ok
          /\ d.all_idx.shape = <<s[1], s[3], n>>
          /\ d.val.shape = <<s[1], s[3], n>>
          /\ \A o \in 0..(s[1] - 1) : \A h \in 0..(s[3] - 1) : \A j \in 0..(n - 1) :
                LET r == o * s[3] + h
                    c == At(d.all_idx, r, j)
                IN /\ c \in 0..(totalk - 1)
                   /\ At(d.val, r, j)
                      = xs[1].data[((o * s[2] + (c \div s[4])) * s[3] + h) * s[4]
                                   + (c % s[4]) + 1]

C16_Witness ==
    /\ pc = "compressed"
    /\ xs[1] = [shape |-> <<1, 2, 2, 1>>, data |-> <<1, -1, 0, 1>>]
    /\ codec = [topk |-> 1, randk |-> 0]
    /\ deltas[1].ok
    /\ deltas[1].all_idx.shape = <<1, 2, 1>>
    /\ deltas[1].all_idx.data[1] = 0
    /\ deltas[1].val.data[1] = 1

\* C17: with topk and randk positive, every row's index list holds at
\* positions 0..k-1 a top-k selection by magnitude of the row, k the capped
\* topk, and after it, at positions k..k+rk-1, rk the capped randk, columns
\* outside that selection; the value at position j is the row's element at
\* the index in position j
C17_IndexLayout ==
    (Compressed /\ codec.topk > 0 /\ codec.randk > 0)
    => /\ deltas[1].ok
       /\ \A r \in 0..(TotalRows(xs[1].shape) - 1) :
             LET totalk == TotalK(xs[1].shape)
                 k == Min(codec.topk, totalk)
                 rk == Min(codec.randk, totalk - k)
                 row == IdxRow(r)
                 head == {row[i] : i \in 1..k}
             IN /\ Len(row) = k + rk
                /\ Len(ValRow(r)) = k + rk
                /\ \A i \in 1..k : \A c \in (0..(totalk - 1)) \ head :
                      AbsVal(ViewAt(xs[1], r, row[i])) >= AbsVal(ViewAt(xs[1], r, c))
                /\ \A j \in (k + 1)..(k + rk) :
                      row[j] \in (0..(totalk - 1)) \ head
                /\ \A j \in 1..(k + rk) : ValRow(r)[j] = ViewAt(xs[1], r, row[j])

C17_Witness ==
    /\ pc = "compressed"
    /\ xs[1] = [shape |-> <<1, 3>>, data |-> <<0, -1, 0>>]
    /\ codec = [topk |-> 1, randk |-> 1]
    /\ deltas[1].ok
    /\ deltas[1].all_idx.data = <<1, 2>>
    /\ deltas[1].val.data = <<-1, 0>>

\* C18: every index of every row of a compress result is a column of the
\* view, at least 0 and below totalk, and decompress accepts the result
C18_IndexRange ==
    (Compressed /\ deltas[1].ok)
    => /\ \A m \in DOMAIN deltas[1].all_idx.data :
             /\ deltas[1].all_idx.data[m] >= 0
             /\ deltas[1].all_idx.data[m] < TotalK(xs[1].shape)
       /\ pc = "decompressed" => result.ok

C18_Witness ==
    /\ pc = "decompressed"
    /\ xs[1] = [shape |-> <<1, 3>>, data |-> <<0, 0, 1>>]
    /\ codec = [topk |-> 1, randk |-> 0]
    /\ deltas[1].all_idx.data = <<2>>
    /\ result.ok

----------------------------------------------------------------------------
(* Further properties of the command-line tool *)

\* the record on stdin has lists all_idx, val, shape not all of one length
LensDiffer ==
    /\ proc.stdin.lens # <<>>
    /\ \/ proc.stdin.lens[1] # proc.stdin.lens[2]
       \/ proc.stdin.lens[2] # proc.stdin.lens[3]
       \/ proc.stdin.lens[1] # proc.stdin.lens[3]

\* C19: when any two of the lists all_idx, val and shape of the record
\* differ in length, main() ends with an error and no tensor has been
\* allocated, decompressed or written; the error is the one of the length
\* check whenever the record was on its own or alone in a list; and main()
\* enters its loop only with three lists of one length, one triple for
\* each entry
C19_BatchStructure ==
    /\ LensDiffer
       => /\ pc = "exited"
          /\ proc.exit \in {"ValueError: invalid distro data. lens dont match.",
                            "ValueError: invalid distro data. array len must be 1."}
          /\ (proc.stdin.kind = "object" \/ ListOfOne)
             => proc.exit = "ValueError: invalid distro data. lens dont match."
          /\ proc.stdout = <<>>
          /\ proc.i = 0
          /\ proc.x = NoTensor
          /\ result = NoResult
          /\ deltas = <<>>
    /\ InLoop
       => /\ ~LensDiffer
          /\ Len(deltas) = proc.stdin.lens[1]

C19_Witness ==
    /\ pc = "exited"
    /\ proc.stdin = [kind |-> "object", len |-> 1, lens |-> <<2, 2, 1>>]
    /\ proc.exit = "ValueError: invalid distro data. lens dont match."
    /\ proc.stdout = <<>>

----------------------------------------------------------------------------
(* Properties of calls on one codec in any order *)

\* the codec as the constructor left it
AsConstructed == CompressDCT_init(req.topk, req.randk)

\* every call so far has returned something it may return when it is the
\* only call made on a codec just constructed, and the codec is as the
\* constructor left it
CallsAsAlone ==
    /\ codec = AsConstructed
    /\ \A i \in Callers :
          /\ pc[i] # "idle" => deltas[i] \in compress(AsConstructed, xs[i])
          /\ pc[i] = "decompressed"
             => result[i] = decompress(AsConstructed, deltas[i].all_idx,
                                       deltas[i].val, deltas[i].xshape)
    /\ pc[3] = "merged"
       => result[3] = batch_decompress(AsConstructed, BatchOf(deltas))

\* the values the compress calls made so far draw from the default generator
DrawnSoFar ==
    SumSeq([i \in 1..2 |-> IF pc[i] # "idle"
                           THEN compress_draws(AsConstructed, xs[i]) ELSE 0])

\* C20 as claimed: in any order of compress, decompress and merge calls on
\* one codec, no call changes the codec or any state of the process, the
\* default random generator included, and every call returns what it may
\* return when made alone
C20_StatelessAsClaimed ==
    /\ CallsAsAlone
    /\ rng = 0

\* C20 as amended: in any order of compress, decompress and merge calls on
\* one codec, no call changes the codec and every call returns what it may
\* return when made alone; the one state of the process a call changes is
\* the default random generator, from which every compress call whose
\* capped randk is positive draws one value for each element of its tensor
C20_Stateless ==
    /\ CallsAsAlone
    /\ rng = DrawnSoFar

C20_Witness ==
    /\ pc = <<"decompressed", "decompressed", "merged">>
    /\ codec = [topk |-> 1, randk |-> 1]
    /\ xs = <<[shape |-> <<1, 2>>, data |-> <<1, 0>>],
              [shape |-> <<1, 2>>, data |-> <<0, 1>>]>>
    /\ rng = 4
    /\ result[3].ok
    /\ result[3].x.data = <<1, 1>>

\* C21: no call changes what it is handed.  A compress call leaves the
\* caller's tensor as it was passed, and no other call, a decompress, a
\* repeated decompress or a merge, changes the tensor or the delta
\* (indices, values and shape) of any caller; a decompress of a delta that
\* was decompressed before returns the same tensor again
C21_InputsUnchanged ==
    [][\A i \in Callers :
          /\ (pc[i] = "idle" /\ pc'[i] = "compressed")
             => \A t \in CallTensors :
                   (deltas'[i].xshape = t.shape /\ CallCompressOf(i, t))
                   => xs'[i] = t
          /\ ~(pc[i] = "idle" /\ pc'[i] = "compressed")
             => xs'[i] = xs[i] /\ deltas'[i] = deltas[i]
          /\ (pc[i] = "decompressed" /\ pc'[i] = "decompressed")
             => result'[i] = result[i]]_vars

C21_Witness ==
    /\ pc = <<"decompressed", "decompressed", "merged">>
    /\ codec = [topk |-> 1, randk |-> 1]
    /\ xs = <<[shape |-> <<1, 2>>, data |-> <<1, 1>>],
              [shape |-> <<1, 1>>, data |-> <<1>>]>>
    /\ deltas[1].val.data = <<1, 1>>
    /\ result[1].ok /\ result[1].x = xs[1]

----------------------------------------------------------------------------
(* Properties of a compress that selects nothing *)

\* the error compress raises when it has selected no index
InvalidConfig == "TypeError: gather index is None"

\* the topk and the randk of the codec, capped by the row width of xs[1]
CappedTopk == Min(codec.topk, TotalK(xs[1].shape))
CappedRandk == Min(codec.randk, TotalK(xs[1].shape) - CappedTopk)

----------------------------------------------------------------------------
(* Properties of the tensor a round trip gives back *)

\* C23: for every tensor and every codec whose compress succeeds,
\* decompressing the compress result succeeds and gives a tensor of the
\* same shape in which every element is the element of the input at the
\* same position, if the index list of its row names its column, and 0
\* otherwise
C23_MaskedCopy ==
    (pc = "decompressed")
    => LET t == xs[1]
       IN /\ result.ok
          /\ result.x.shape = t.shape
          /\ Len(result.x.data) = Len(t.data)
          /\ \A r \in 0..(TotalRows(t.shape) - 1) :
                \A c \in 0..(TotalK(t.shape) - 1) :
                   ViewAt(result.x, r, c) =
                      IF c \in Range(IdxRow(r)) THEN ViewAt(t, r, c) ELSE 0

C23_Witness ==
    /\ pc = "decompressed"
    /\ req = [topk |-> 1, randk |-> 1]
    /\ xs[1] = [shape |-> <<1, 3>>, data |-> <<1, -1, 1>>]
    /\ Range(IdxRow(0)) = {1, 2}
    /\ result.ok
    /\ result.x.data = <<0, -1, 1>>

----------------------------------------------------------------------------
(* Properties of the tool under different configurations *)

\* pairs of compress_topk and compress_randk a method descriptor may hold
DescriptorPairs == {0, 2} \X {0, 1}

\* the tensor decompress returns for the j-th triple of the document when
\* the codec has been constructed with the pair k
DecompressedWith(k, j) ==
    decompress(CompressDCT_init(k[1], k[2]), TorchTensor(deltas[j].idx),
               TorchTensor(deltas[j].val), deltas[j].shape)

\* how main() ends for the document on record if no decompress fails
ExitOfDocument ==
    LET f == proc.stdin
    IN IF f.kind = "invalid" THEN "SystemExit: 1"
       ELSE IF f.kind = "list" /\ f.len # 1
       THEN "ValueError: invalid distro data. array len must be 1."
       ELSE IF ~(f.lens[1] = f.lens[2] /\ f.lens[2] = f.lens[3])
       THEN "ValueError: invalid distro data. lens dont match."
       ELSE "0"

\* C24: once a configuration of type distro is loaded, what the tool
\* writes and how it ends are what the document on stdin alone determines:
\* the run is never ended before stdin is read, every tensor written is the
\* one decompress returns for its triple with a codec of any compress_topk
\* and compress_randk, and the run ends with the error of the document, with
\* the error decompress raises on a triple under every such codec, or
\* with status 0
C24_ConfigIndependent ==
    (proc.config.valid /\ proc.config.type = "distro")
    => /\ pc = "exited" => proc.stdin # NoForm
       /\ Len(proc.stdout) = proc.i + (IF proc.stdin.kind = "invalid" THEN 1 ELSE 0)
       /\ \A j \in 1..proc.i :
             \A out \in {DecompressedWith(k, j) : k \in DescriptorPairs} :
                out.ok /\ proc.stdout[j] = Written(TensorBytes(out.x))
       /\ pc = "exited"
          => IF proc.i < Len(deltas)
             THEN \A out \in {DecompressedWith(k, proc.i + 1) : k \in DescriptorPairs} :
                     ~out.ok /\ proc.exit = out.err
             ELSE proc.exit = ExitOfDocument

C24_Witness ==
    /\ pc = "exited"
    /\ proc.exit = "0"
    /\ proc.config = [valid |-> TRUE, type |-> "distro",
                      compress_topk |-> 0, compress_randk |-> 0]
    /\ codec = [topk |-> 0, randk |-> 0]
    /\ Len(deltas) = 2
    /\ deltas[1] = [idx |-> <<<<1>>>>, val |-> <<<<1>>>>, shape |-> <<1, 2>>]
    /\ StdoutBytes = <<0, 0, 0, 0, 0, 0, 128, 63, 0, 0, 0, 0, 0, 0, 0, 0>>

----------------------------------------------------------------------------
(* Properties of a merge of shards of different shapes *)

\* shapes a shard may record
RecordedShapes == {<<>>, <<1, 1>>, <<1, 2>>, <<2, 1>>, <<1, 1, 1, 1>>}

\* C25: the tensor a merge returns has the shape the first shard records,
\* whatever shape the second shard records, and the merge returns the same
\* tensor or the same error when the shape of the second shard is replaced
\* by any other
C25_ShapeOfFirstShard ==
    pc[3] = "merged"
    => /\ result[3].ok => result[3].x.shape = deltas[1].xshape
       /\ \A s \in RecordedShapes :
             result[3] = batch_decompress(
                            codec, BatchOf([deltas EXCEPT ![2].xshape = s]))

C25_Witness ==
    /\ pc[3] = "merged"
    /\ deltas[1].xshape = <<1, 2>>
    /\ deltas[2].xshape = <<1, 1>>
    /\ xs[1].data = <<0, 1>> /\ xs[2].data = <<1>>
    /\ result[3].ok
    /\ result[3].x = [shape |-> <<1, 2>>, data |-> <<1, 1>>]

----------------------------------------------------------------------------
(* Properties of the cloud test scripts *)

\* the delete commands issued so far for the instance name
Deletes(name) ==
    Cardinality({n \in DOMAIN proc.cmds : proc.cmds[n] = Gcloud("delete", name)})

\* the instance names whose creation was attempted
Attempted == Range(proc.containers)

\* C26: no instance name is ever sent more than one delete command, and
\* when the run has ended, however it ended, every instance name whose
\* creation was attempted has been sent exactly one
C26_CleanupExactlyOnce ==
    /\ \A name \in Attempted : Deletes(name) <= 1
    /\ ~Running => \A name \in Attempted : Deletes(name) = 1

\* when the run has ended, every instance name whose creation was
\* attempted has been sent a delete command
C26_CleanedUp ==
    ~Running => \A name \in Attempted : Deletes(name) >= 1

\* every run ends
C26_Ends == <>(~Running)

=============================================================================
